---- MODULE Spec2Model ----
(***************************************************************************)
(* Model of updatePartial(EPaper* epd), the UC8179 partial refresh helper  *)
(* of arduino/epaper-client/partial-refresh.h.                             *)
(*                                                                         *)
(* The display handle is a recording fake: every startWrite, writecommand, *)
(* writedata and endWrite the routine makes is appended to `bus`.  The     *)
(* busy pin is an input the panel drives at any time; the routine only     *)
(* reads it.  One action models one statement (or one loop iteration) of   *)
(* the routine; `pc` is the statement the call executes next.              *)
(***************************************************************************)
EXTENDS Integers, Sequences, FiniteSets

VARIABLES
    pc,          \* position of the call inside updatePartial
    fbValid,     \* TRUE iff epd->frameBuffer(0) is non-null
    frameBuffer, \* the display's packed framebuffer memory (bytes, 1-based)
    fbAtCall,    \* history: framebuffer content when the call was made
    dispWidth,   \* what epd->width() reports
    dispHeight,  \* what epd->height() reports
    width,       \* local `int width`   (line 29)
    height,      \* local `int height`  (line 30)
    bufSize,     \* local `int bufSize` (line 31)
    i,           \* loop variable of the streaming loop (line 54)
    cfg,         \* index of the next write of the fixed sequence (lines 37-48)
    bus,         \* recorded startWrite/writecommand/writedata/endWrite calls
    busyPin,     \* level of TFT_BUSY as driven by the panel (0 = busy)
    lastRead,    \* value of the latest digitalRead(TFT_BUSY), -1 if none yet
    busyReads,   \* polls that read 0, counted up to MaxPolls
    idleReads,   \* polls that read non-zero
    delays,      \* delay(10) calls, counted up to MaxPolls + 1
    fbReads,     \* history: the indices at which this call read fb[]
    build,       \* the firmware build: target, BOARD_SCREEN_COMBO, outcome
    earlier,     \* history: << >> or one remembered earlier call of the run
    other        \* << >> or the saved context of a second, suspended caller

vars == << pc, fbValid, frameBuffer, fbAtCall, dispWidth, dispHeight, width,
           height, bufSize, i, cfg, bus, busyPin, lastRead, busyReads,
           idleReads, delays, fbReads, build, earlier, other >>

----------------------------------------------------------------------------
(* Bounds of the model. *)

MaxWidth == 4

MaxHeight == 6

MaxPolls == 2

MaxSwitches == 2

(* Framebuffer byte values the model draws from: all-white, all-black, and *)
(* bytes whose complement equals a command code (0xED -> 0x12, 0xEC ->     *)
(* 0x13) or a parameter byte (0xA5 -> 0x5A).                               *)
ByteSamples == {0, 165, 236, 237, 255}

(* Panel geometry of the supported hardware: 800x480, monochrome. *)
SupportedPanels == {<< 800, 480 >>}

Widths == 0 .. MaxWidth

Heights == 0 .. MaxHeight

----------------------------------------------------------------------------
(* Pure helpers. *)

(* C `~x` on an int (the uint8_t operand is promoted to int first). *)
BitNot(x) == -x - 1

(* Conversion of an int argument to the uint8_t parameter of writedata. *)
ToUint8(x) == x % 256

(* Faulty variant: divides the width before multiplying. *)
BufSize_DivFirst(w, h) == (w \div 8) * h

(* Faulty variant: the product is formed in 16-bit signed arithmetic. *)
BufSize_Int16(w, h) == ((((w * h) + 32768) % 65536) - 32768) \div 8

(* line 31: int bufSize = (width * height) / 8; *)
BufSize(w, h) == (w * h) \div 8

(* Bytes of the packed 1-bit-per-pixel framebuffer the display owns. *)
FrameBytes(w, h) == (w * h) \div 8

(* Recorded calls on the display handle. *)
StartEv == [op |-> "start", val |-> 0]

EndEv == [op |-> "end", val |-> 0]

Cmd(b) == [op |-> "cmd", val |-> b]

Data(b) == [op |-> "data", val |-> b]

(* Faulty variant: the Cascade Setting command and its parameter left out. *)
ConfigSequence_NoCascade ==
    << Cmd(0),   Data(31),
       Cmd(80),  Data(16), Data(7),
       Cmd(229), Data(90) >>

(* Faulty variant: the two parameters of command 0x50 exchanged. *)
ConfigSequence_SwappedVcom ==
    << Cmd(0),   Data(31),
       Cmd(80),  Data(7), Data(16),
       Cmd(224), Data(2),
       Cmd(229), Data(90) >>

(* lines 37-48: the fixed partial refresh initialisation sequence. *)
ConfigSequence ==
    << Cmd(0),   Data(31),            \* 0x00 Panel Setting, 0x1F
       Cmd(80),  Data(16), Data(7),   \* 0x50 VCOM/Data Interval, 0x10, 0x07
       Cmd(224), Data(2),             \* 0xE0 Cascade Setting, 0x02
       Cmd(229), Data(90) >>          \* 0xE5 Force Temperature, 0x5A

(* line 51: new image data command 0x13. *)
ImageCmd == Cmd(19)

(* line 59: display refresh command 0x12. *)
RefreshCmd == Cmd(18)

(* Build targets (CONFIG_IDF_TARGET_<name> of the SDK configuration). *)
Targets == {"ESP32", "ESP32S2", "ESP32S3", "ESP32C3", "ESP32C6", "ESP32H2"}

(* Value of CONFIG_IDF_TARGET_<name> in an #if of a build for target t:    *)
(* 1 for the selected target; an undefined macro evaluates to 0.           *)
TargetMacro(t, name) == IF t = name THEN 1 ELSE 0

NotBuilt(t) == [target |-> t, status |-> "pending", combo |-> 0]

(* Faulty variant: the #else branch falls back to the default board. *)
DriverConfig_DefaultBoard(t) ==
    IF TargetMacro(t, "ESP32C3") # 0
      THEN [target |-> t, status |-> "ok", combo |-> 502]
      ELSE [target |-> t, status |-> "ok", combo |-> 520]

(* driver.h lines 11-25: #if / #elif / #else #error.  combo is the value   *)
(* of BOARD_SCREEN_COMBO, 0 when the macro is left undefined.              *)
DriverConfig(t) ==
    IF TargetMacro(t, "ESP32C3") # 0
      THEN [target |-> t, status |-> "ok", combo |-> 502]
      ELSE IF TargetMacro(t, "ESP32S3") # 0
        THEN [target |-> t, status |-> "ok", combo |-> 520]
        ELSE [target |-> t, status |-> "error", combo |-> 0]

(* Saturating count: values above the cap are not told apart. *)
Bump(n, cap) == IF n < cap THEN n + 1 ELSE n

----------------------------------------------------------------------------
(* Initial state: an initialised display, the call not yet made. *)

DisplayInit ==
    /\ fbValid \in BOOLEAN
    /\ dispWidth \in Widths
    /\ dispHeight \in Heights
    /\ frameBuffer \in
         IF fbValid
           THEN [1 .. FrameBytes(dispWidth, dispHeight) -> ByteSamples]
           ELSE {<< >>}
    /\ fbAtCall = frameBuffer
    /\ width = 0
    /\ height = 0
    /\ bufSize = 0
    /\ i = 0
    /\ cfg = 1
    /\ bus = << >>
    /\ busyPin \in {0, 1}
    /\ lastRead = -1
    /\ busyReads = 0
    /\ idleReads = 0
    /\ delays = 0
    /\ fbReads = {}
    /\ earlier = << >>

(* The firmware that runs was built for one of the supported targets. *)
Init ==
    /\ pc = "Idle"
    /\ build \in {b \in {DriverConfig(t) : t \in Targets} : b.status = "ok"}
    /\ DisplayInit
    /\ other = << >>

----------------------------------------------------------------------------
(* The panel drives TFT_BUSY at any time. *)
PanelDrivesBusy ==
    /\ busyPin' = 1 - busyPin
    /\ UNCHANGED << other, earlier, build, fbReads, pc, fbValid, frameBuffer, fbAtCall, dispWidth, dispHeight,
                    width, height, bufSize, i, cfg, bus, lastRead, busyReads,
                    idleReads, delays >>

(* Faulty variant: startWrite is called before the null check. *)
Enter_StartBeforeCheck ==
    /\ pc = "Idle"
    /\ bus' = Append(bus, StartEv)
    /\ IF ~fbValid
         THEN /\ pc' = "Returned"
              /\ UNCHANGED << width, height, bufSize >>
         ELSE /\ width' = dispWidth
              /\ height' = dispHeight
              /\ bufSize' = BufSize(dispWidth, dispHeight)
              /\ pc' = "Config"
    /\ UNCHANGED << other, earlier, build, fbReads, fbValid, frameBuffer, fbAtCall, dispWidth, dispHeight, i,
                    cfg, busyPin, lastRead, busyReads, idleReads, delays >>

(* lines 25-31: fetch the framebuffer, return if null, compute the size. *)
Enter ==
    /\ pc = "Idle"
    /\ IF ~fbValid
         THEN /\ pc' = "Returned"
              /\ UNCHANGED << width, height, bufSize >>
         ELSE /\ width' = dispWidth
              /\ height' = dispHeight
              /\ bufSize' = BufSize(dispWidth, dispHeight)
              /\ pc' = "StartWrite"
    /\ UNCHANGED << other, earlier, build, fbReads, fbValid, frameBuffer, fbAtCall, dispWidth, dispHeight, i,
                    cfg, bus, busyPin, lastRead, busyReads, idleReads, delays >>

(* Faulty variant: startWrite waits while a transaction is open. *)
StartWrite_Locked ==
    /\ pc = "StartWrite"
    /\ Len(SelectSeq(bus, LAMBDA e : e.op = "start"))
         = Len(SelectSeq(bus, LAMBDA e : e.op = "end"))
    /\ bus' = Append(bus, StartEv)
    /\ cfg' = 1
    /\ pc' = "Config"
    /\ UNCHANGED << other, earlier, build, fbReads, fbValid, frameBuffer,
                    fbAtCall, dispWidth, dispHeight, width, height, bufSize,
                    i, busyPin, lastRead, busyReads, idleReads, delays >>

(* line 34: epd->startWrite(); *)
StartWrite ==
    /\ pc = "StartWrite"
    /\ bus' = Append(bus, StartEv)
    /\ cfg' = 1
    /\ pc' = "Config"
    /\ UNCHANGED << other, earlier, build, fbReads, fbValid, frameBuffer, fbAtCall, dispWidth, dispHeight,
                    width, height, bufSize, i, busyPin, lastRead, busyReads,
                    idleReads, delays >>

(* lines 37-48: one writecommand/writedata of the fixed sequence. *)
SendConfig ==
    /\ pc = "Config"
    /\ bus' = Append(bus, ConfigSequence[cfg])
    /\ cfg' = cfg + 1
    /\ pc' = IF cfg = Len(ConfigSequence) THEN "ImageCmd" ELSE "Config"
    /\ UNCHANGED << other, earlier, build, fbReads, fbValid, frameBuffer, fbAtCall, dispWidth, dispHeight,
                    width, height, bufSize, i, busyPin, lastRead, busyReads,
                    idleReads, delays >>

(* Faulty variant: the loop index is kept from the previous call. *)
SendImageCmd_KeepIndex ==
    /\ pc = "ImageCmd"
    /\ bus' = Append(bus, ImageCmd)
    /\ pc' = "Stream"
    /\ UNCHANGED << other, earlier, build, fbReads, fbValid, frameBuffer, fbAtCall,
                    dispWidth, dispHeight, width, height, bufSize, i, cfg,
                    busyPin, lastRead, busyReads, idleReads, delays >>

(* lines 51-54: writecommand(0x13); int i = 0; *)
SendImageCmd ==
    /\ pc = "ImageCmd"
    /\ bus' = Append(bus, ImageCmd)
    /\ i' = 0
    /\ pc' = "Stream"
    /\ UNCHANGED << other, earlier, build, fbReads, fbValid, frameBuffer, fbAtCall, dispWidth, dispHeight,
                    width, height, bufSize, cfg, busyPin, lastRead, busyReads,
                    idleReads, delays >>

(* Faulty variant: the byte is sent as stored, not inverted. *)
StreamedByte_NoInvert(k) == ToUint8(frameBuffer[k + 1])

(* The byte the loop body passes to writedata for index k (0-based). *)
StreamedByte(k) == ToUint8(BitNot(frameBuffer[k + 1]))

(* What writedata receives for index k: the inverted byte when k lies in    *)
(* the framebuffer; a read outside it is undefined and may yield any byte. *)
SentFor(k) ==
    IF k \in 0 .. Len(frameBuffer) - 1
      THEN {StreamedByte(k)}
      ELSE {ToUint8(BitNot(b)) : b \in 0 .. 255}

(* Faulty variant: the loop runs one index too far. *)
LoopCond_Inclusive == i <= bufSize

(* line 54: the loop condition. *)
LoopCond == i < bufSize

(* Faulty variant: the byte is inverted in place, then sent. *)
StreamByte_InPlace ==
    /\ pc = "Stream"
    /\ i < bufSize
    /\ frameBuffer' =
         [frameBuffer EXCEPT ![i + 1] = ToUint8(BitNot(frameBuffer[i + 1]))]
    /\ bus' = Append(bus, Data(ToUint8(BitNot(frameBuffer[i + 1]))))
    /\ i' = i + 1
    /\ fbReads' = fbReads \cup {i}
    /\ UNCHANGED << other, earlier, build, pc, fbValid, fbAtCall, dispWidth, dispHeight,
                    width, height, bufSize, cfg, busyPin, lastRead, busyReads,
                    idleReads, delays >>

(* lines 54-56: one iteration: writedata(~fb[i]); i++ *)
StreamByte ==
    /\ pc = "Stream"
    /\ LoopCond
    /\ \E d \in SentFor(i) : bus' = Append(bus, Data(d))
    /\ fbReads' = fbReads \cup {i}
    /\ i' = i + 1
    /\ UNCHANGED << other, earlier, build, pc, fbValid, frameBuffer, fbAtCall, dispWidth, dispHeight,
                    width, height, bufSize, cfg, busyPin, lastRead, busyReads,
                    idleReads, delays >>

(* Faulty variant: the delay after the refresh command is left out. *)
TriggerRefresh_NoDelay ==
    /\ pc = "Stream"
    /\ ~LoopCond
    /\ bus' = Append(bus, RefreshCmd)
    /\ pc' = "Poll"
    /\ UNCHANGED << other, earlier, build, fbReads, fbValid, frameBuffer, fbAtCall, dispWidth,
                    dispHeight, width, height, bufSize, i, cfg, busyPin,
                    lastRead, busyReads, idleReads, delays >>

(* Faulty variant: endWrite is called right after the refresh command. *)
TriggerRefresh_ReleaseEarly ==
    /\ pc = "Stream"
    /\ ~LoopCond
    /\ bus' = bus \o << RefreshCmd, EndEv >>
    /\ delays' = Bump(delays, MaxPolls + 1)
    /\ pc' = "Poll"
    /\ UNCHANGED << other, earlier, build, fbReads, fbValid, frameBuffer, fbAtCall, dispWidth, dispHeight,
                    width, height, bufSize, i, cfg, busyPin, lastRead,
                    busyReads, idleReads >>

(* lines 54, 59-60: loop exit, writecommand(0x12), delay(10). *)
TriggerRefresh ==
    /\ pc = "Stream"
    /\ ~LoopCond
    /\ bus' = Append(bus, RefreshCmd)
    /\ delays' = Bump(delays, MaxPolls + 1)
    /\ pc' = "Poll"
    /\ UNCHANGED << other, earlier, build, fbReads, fbValid, frameBuffer, fbAtCall, dispWidth, dispHeight,
                    width, height, bufSize, i, cfg, busyPin, lastRead,
                    busyReads, idleReads >>

(* Faulty variant: the wait gives up once MaxPolls polls have read busy. *)
Poll_WithTimeout ==
    /\ pc = "Poll"
    /\ lastRead' = busyPin
    /\ IF busyPin = 0
         THEN /\ busyReads' = Bump(busyReads, MaxPolls)
              /\ idleReads' = idleReads
              /\ pc' = IF busyReads + 1 >= MaxPolls
                         THEN "EndWrite" ELSE "LoopDelay"
         ELSE /\ idleReads' = idleReads + 1
              /\ busyReads' = busyReads
              /\ pc' = "EndWrite"
    /\ UNCHANGED << other, earlier, build, fbReads, fbValid, frameBuffer, fbAtCall, dispWidth, dispHeight,
                    width, height, bufSize, i, cfg, bus, busyPin, delays >>

(* Faulty variant: the loop test is inverted (waits while the pin is 1). *)
Poll_ExitOnBusy ==
    /\ pc = "Poll"
    /\ lastRead' = busyPin
    /\ IF busyPin # 0
         THEN /\ idleReads' = Bump(idleReads, MaxPolls)
              /\ busyReads' = busyReads
              /\ pc' = "LoopDelay"
         ELSE /\ busyReads' = Bump(busyReads, MaxPolls)
              /\ idleReads' = idleReads
              /\ pc' = "EndWrite"
    /\ UNCHANGED << other, earlier, build, fbReads, fbValid, frameBuffer, fbAtCall, dispWidth, dispHeight,
                    width, height, bufSize, i, cfg, bus, busyPin, delays >>

(* Faulty variant: the wait ends only at an idle reading that follows a    *)
(* busy reading.                                                           *)
Poll_EdgeTriggered ==
    /\ pc = "Poll"
    /\ lastRead' = busyPin
    /\ busyReads' = IF busyPin = 0 THEN Bump(busyReads, MaxPolls) ELSE busyReads
    /\ idleReads' = IF busyPin # 0 THEN Bump(idleReads, MaxPolls) ELSE idleReads
    /\ pc' = IF busyPin # 0 /\ busyReads >= 1 THEN "EndWrite" ELSE "LoopDelay"
    /\ UNCHANGED << other, earlier, build, fbReads, fbValid, frameBuffer, fbAtCall, dispWidth,
                    dispHeight, width, height, bufSize, i, cfg, bus, busyPin,
                    delays >>

(* Faulty variant: the wait ends only at the second idle reading in a row. *)
Poll_Debounced ==
    /\ pc = "Poll"
    /\ lastRead' = busyPin
    /\ busyReads' = IF busyPin = 0 THEN Bump(busyReads, MaxPolls) ELSE busyReads
    /\ idleReads' = IF busyPin # 0 THEN Bump(idleReads, MaxPolls) ELSE idleReads
    /\ pc' = IF busyPin # 0 /\ lastRead = 1 THEN "EndWrite" ELSE "LoopDelay"
    /\ UNCHANGED << other, earlier, build, fbReads, fbValid, frameBuffer, fbAtCall, dispWidth, dispHeight,
                    width, height, bufSize, i, cfg, bus, busyPin, delays >>

(* line 63: the loop test digitalRead(TFT_BUSY) == 0. *)
Poll ==
    /\ pc = "Poll"
    /\ lastRead' = busyPin
    /\ IF busyPin = 0
         THEN /\ busyReads' = Bump(busyReads, MaxPolls)
              /\ idleReads' = idleReads
              /\ pc' = "LoopDelay"
         ELSE /\ idleReads' = idleReads + 1
              /\ busyReads' = busyReads
              /\ pc' = "EndWrite"
    /\ UNCHANGED << other, earlier, build, fbReads, fbValid, frameBuffer, fbAtCall, dispWidth, dispHeight,
                    width, height, bufSize, i, cfg, bus, busyPin, delays >>

(* line 64: delay(10) inside the polling loop. *)
LoopDelay ==
    /\ pc = "LoopDelay"
    /\ delays' = Bump(delays, MaxPolls + 1)
    /\ pc' = "Poll"
    /\ UNCHANGED << other, earlier, build, fbReads, fbValid, frameBuffer, fbAtCall, dispWidth, dispHeight,
                    width, height, bufSize, i, cfg, bus, busyPin, lastRead,
                    busyReads, idleReads >>

(* Faulty variant: the function returns without calling endWrite. *)
EndWrite_Missing ==
    /\ pc = "EndWrite"
    /\ pc' = "Returned"
    /\ UNCHANGED << other, earlier, build, fbReads, fbValid, frameBuffer, fbAtCall, dispWidth, dispHeight,
                    width, height, bufSize, i, cfg, bus, busyPin, lastRead,
                    busyReads, idleReads, delays >>

(* line 67: epd->endWrite(); the function returns. *)
EndWrite ==
    /\ pc = "EndWrite"
    /\ bus' = Append(bus, EndEv)
    /\ pc' = "Returned"
    /\ UNCHANGED << other, earlier, build, fbReads, fbValid, frameBuffer, fbAtCall, dispWidth, dispHeight,
                    width, height, bufSize, i, cfg, busyPin, lastRead,
                    busyReads, idleReads, delays >>

(* The build: the preprocessor evaluates driver.h; an #error stops the     *)
(* build, otherwise the firmware is produced and runs.                     *)
Preprocess ==
    /\ pc = "Build"
    /\ build.status = "pending"
    /\ build' = DriverConfig(build.target)
    /\ pc' = IF build'.status = "ok" THEN "Idle" ELSE "BuildFailed"
    /\ UNCHANGED << other, earlier, fbReads, fbValid, frameBuffer, fbAtCall, dispWidth,
                    dispHeight, width, height, bufSize, i, cfg, bus, busyPin,
                    lastRead, busyReads, idleReads, delays >>

(* Framebuffer byte values drawn where a run makes several calls. *)
CallBytes == {0, 237}

(* What a returned call was given and what it wrote. *)
CallRecord ==
    [valid |-> fbValid, w |-> dispWidth, h |-> dispHeight, fb |-> fbAtCall,
     stream |-> bus]

(* The caller calls updatePartial again on the same display handle, whose  *)
(* framebuffer it may have redrawn or lost meanwhile.  The recording       *)
(* restarts; the locals of the new activation hold whatever the previous   *)
(* one left until the routine assigns them.                                *)
CallAgain ==
    /\ pc = "Returned"
    /\ earlier' \in {earlier, << CallRecord >>}
    /\ fbValid' \in BOOLEAN
    /\ frameBuffer' \in
         IF fbValid'
           THEN [1 .. FrameBytes(dispWidth, dispHeight) -> CallBytes]
           ELSE {<< >>}
    /\ fbAtCall' = frameBuffer'
    /\ bus' = << >>
    /\ lastRead' = -1
    /\ busyReads' = 0
    /\ idleReads' = 0
    /\ delays' = 0
    /\ fbReads' = {}
    /\ pc' = "Idle"
    /\ UNCHANGED << other, build, dispWidth, dispHeight, width, height, bufSize, i,
                    cfg, busyPin >>

(* The part of the state that belongs to one activation of the routine:    *)
(* its position, its locals and what was recorded of its polling.          *)
Context ==
    [pc |-> pc, width |-> width, height |-> height, bufSize |-> bufSize,
     i |-> i, cfg |-> cfg, lastRead |-> lastRead, busyReads |-> busyReads,
     idleReads |-> idleReads, delays |-> delays, fbReads |-> fbReads]

(* A caller that has not yet entered the routine. *)
IdleContext ==
    [pc |-> "Idle", width |-> 0, height |-> 0, bufSize |-> 0, i |-> 0,
     cfg |-> 1, lastRead |-> -1, busyReads |-> 0, idleReads |-> 0,
     delays |-> 0, fbReads |-> {}]

(* Two logical threads call updatePartial on the same display handle: the  *)
(* scheduler suspends the running caller between any two statements and   *)
(* resumes the other.  The handle, its framebuffer, the recorded bus and   *)
(* the busy pin are shared; startWrite and endWrite do not block.          *)
Switch ==
    /\ other # << >>
    /\ other[1].switches < MaxSwitches
    /\ other' = << [ctx |-> Context, switches |-> other[1].switches + 1] >>
    /\ pc' = other[1].ctx.pc
    /\ width' = other[1].ctx.width
    /\ height' = other[1].ctx.height
    /\ bufSize' = other[1].ctx.bufSize
    /\ i' = other[1].ctx.i
    /\ cfg' = other[1].ctx.cfg
    /\ lastRead' = other[1].ctx.lastRead
    /\ busyReads' = other[1].ctx.busyReads
    /\ idleReads' = other[1].ctx.idleReads
    /\ delays' = other[1].ctx.delays
    /\ fbReads' = other[1].ctx.fbReads
    /\ UNCHANGED << build, earlier, fbValid, frameBuffer, fbAtCall, dispWidth,
                    dispHeight, bus, busyPin >>

(* The statements of the routine, run by the single calling thread. *)
Step ==
    \/ Enter
    \/ StartWrite
    \/ SendConfig
    \/ SendImageCmd
    \/ StreamByte
    \/ TriggerRefresh
    \/ Poll
    \/ LoopDelay
    \/ EndWrite

Next ==
    \/ Step
    \/ PanelDrivesBusy

Spec == Init /\ [][Next]_vars

(* The calling thread keeps executing: no statement of the routine that   *)
(* can run is postponed forever.  Nothing is assumed about the panel.     *)
LiveSpec == Spec /\ WF_vars(Step)

(* The build followed by the run of the firmware, for every target. *)
InitBuild ==
    /\ pc = "Build"
    /\ build \in {NotBuilt(t) : t \in Targets}
    /\ DisplayInit
    /\ other = << >>

NextBuild ==
    \/ Preprocess
    \/ Step
    \/ PanelDrivesBusy

SpecBuild == InitBuild /\ [][NextBuild]_vars

(* A run of the firmware that calls updatePartial any number of times. *)
InitCalls ==
    /\ Init
    /\ build.combo = 502
    /\ \A k \in DOMAIN frameBuffer : frameBuffer[k] \in CallBytes

NextCalls ==
    \/ CallAgain
    \/ Step
    \/ PanelDrivesBusy

SpecCalls == InitCalls /\ [][NextCalls]_vars

(* Geometries drawn where two callers share the handle: no image byte, and *)
(* one image byte.                                                         *)
TwoCallerPanels == {<< 4, 0 >>, << 4, 2 >>}

(* Two callers of updatePartial on one display handle. *)
InitTwo ==
    /\ pc = "Idle"
    /\ build = DriverConfig("ESP32C3")
    /\ DisplayInit
    /\ fbValid
    /\ << dispWidth, dispHeight >> \in TwoCallerPanels
    /\ \A k \in DOMAIN frameBuffer : frameBuffer[k] \in CallBytes
    /\ other = << [ctx |-> IdleContext, switches |-> 0] >>

NextTwo ==
    \/ Switch
    \/ Step
    \/ PanelDrivesBusy

SpecTwo == InitTwo /\ [][NextTwo]_vars

----------------------------------------------------------------------------
(* Reading the recorded calls. *)

Count(log, o) == Len(SelectSeq(log, LAMBDA e : e.op = o))

(* The command bytes of a log, in the order they were written. *)
RECURSIVE CmdVals(_)
CmdVals(log) ==
    IF log = << >> THEN << >>
    ELSE LET rest == CmdVals(Tail(log))
         IN  IF Head(log).op = "cmd" THEN << Head(log).val >> \o rest ELSE rest

(* The data bytes written from position p on, up to the next non-data call. *)
RECURSIVE DataRun(_, _)
DataRun(log, p) ==
    IF p > Len(log) \/ log[p].op # "data" THEN << >>
    ELSE << log[p].val >> \o DataRun(log, p + 1)

(* Positions at which command byte c was written. *)
CmdPos(log, c) == {p \in 1 .. Len(log) : log[p] = Cmd(c)}

(* The data bytes that follow the (single) command c, << >> if c is absent. *)
ParamsOf(log, c) ==
    IF CmdPos(log, c) = {} THEN << >>
    ELSE DataRun(log, (CHOOSE p \in CmdPos(log, c) : TRUE) + 1)

IsPrefix(s, t) == Len(s) <= Len(t) /\ SubSeq(t, 1, Len(s)) = s

(* Bitwise complement of an 8-bit value, bit by bit. *)
InvertBits(b) ==
    LET bit(k) == (b \div (2 ^ k)) % 2
        RECURSIVE sum(_)
        sum(k) == IF k < 0 THEN 0 ELSE (1 - bit(k)) * (2 ^ k) + sum(k - 1)
    IN  sum(7)

(* The call has written command 0x12 (and may or may not have returned). *)
RefreshSent == fbValid /\ pc \in {"Poll", "LoopDelay", "EndWrite", "Returned"}

(* The call is inside the busy-wait loop of lines 63-65. *)
InPollLoop == pc \in {"Poll", "LoopDelay"}

TxOpen == Count(bus, "start") > Count(bus, "end")

ExpectedCmds == << 0, 80, 224, 229, 19, 18 >>

----------------------------------------------------------------------------
(* C1: the commands one call writes are, in order, exactly 0x00, 0x50,     *)
(* 0xE0, 0xE5, 0x13, 0x12: at every moment the commands written so far are *)
(* a prefix of that list, once the refresh is triggered they are the whole *)
(* list, and what lies between 0x13 and 0x12 is bufSize data bytes.        *)
C1_CommandOrder ==
    /\ IsPrefix(CmdVals(bus), ExpectedCmds)
    /\ RefreshSent =>
         /\ CmdVals(bus) = ExpectedCmds
         /\ \E p \in CmdPos(bus, 19) :
              /\ Len(DataRun(bus, p + 1)) = bufSize
              /\ bus[p + 1 + bufSize] = RefreshCmd

C1_Witness ==
    /\ pc = "Returned" /\ fbValid /\ bufSize >= 2
    /\ CmdVals(bus) = ExpectedCmds

(* C2: with a null framebuffer the call does nothing: no startWrite, no    *)
(* writecommand, no writedata, no endWrite, no delay and no read of the    *)
(* busy pin, and it returns straight from the null check.                  *)
C2_NullNoSideEffects ==
    ~fbValid =>
        /\ bus = << >>
        /\ lastRead = -1 /\ busyReads = 0 /\ idleReads = 0 /\ delays = 0
        /\ pc \in {"Idle", "Returned"}

C2_Witness == pc = "Returned" /\ ~fbValid /\ dispWidth * dispHeight >= 8

(* C3: the data bytes written after command 0x13 are, in ascending index   *)
(* order and each once, the 8-bit complements of the framebuffer bytes:    *)
(* while streaming, i bytes have been sent and the k-th is 255 - fb[k];    *)
(* after the loop all bufSize bytes have been.                             *)
C3_InvertedStream ==
    (fbValid /\ CmdPos(bus, 19) # {}) =>
        LET sent == ParamsOf(bus, 19)
        IN  /\ Len(sent) = i
            /\ \A k \in 0 .. i - 1 :
                 /\ sent[k + 1] = 255 - fbAtCall[k + 1]
                 /\ sent[k + 1] = InvertBits(fbAtCall[k + 1])
            /\ pc # "Stream" => i = bufSize
            /\ i <= bufSize

C3_Witness ==
    /\ pc = "Poll" /\ bufSize = 3
    /\ ParamsOf(bus, 19) = << 18, 90, 255 >>

(* The call has returned with the transaction closed. *)
Closed == pc = "Returned" /\ ~TxOpen

(* C4 as stated: the transaction is balanced whenever the call has         *)
(* returned, and no execution holds the transaction open forever.          *)
C4_NeverHeldForever ==
    /\ [](pc = "Returned" => Count(bus, "start") = Count(bus, "end"))
    /\ []<>(~TxOpen)

(* C4, amended: the transaction is balanced whenever the call has          *)
(* returned (on the null path it was never opened), and an execution holds *)
(* the transaction open forever only by staying in the busy-wait loop      *)
(* forever without ever reading the pin as idle.                           *)
C4_ReleasedOnExit ==
    /\ [](pc = "Returned" =>
            /\ Count(bus, "start") = Count(bus, "end")
            /\ Count(bus, "start") = IF fbValid THEN 1 ELSE 0)
    /\ (<>[]TxOpen => <>[](InPollLoop /\ idleReads = 0))

C4_Witness ==
    /\ pc = "Returned" /\ fbValid
    /\ Count(bus, "start") = 1 /\ Count(bus, "end") = 1

(* C5 as stated: once the transaction is open the call always reaches the  *)
(* closed terminal state, whatever the busy signal does; only the null     *)
(* abort returns without having opened the transaction.                    *)
C5_ClosedUnconditionally ==
    /\ TxOpen ~> Closed
    /\ [](pc = "Returned" /\ Count(bus, "start") = 0 => ~fbValid)

(* C5, amended: once the transaction is open the call reaches the closed   *)
(* terminal state in every execution in which some poll of the busy pin    *)
(* reads idle; only the null abort returns without having opened the       *)
(* transaction.                                                            *)
C5_ClosedIfIdleSeen ==
    /\ [](TxOpen => ([](idleReads = 0) \/ <>Closed))
    /\ [](pc = "Returned" => (Count(bus, "start") = 0 <=> ~fbValid))

C5_Witness == Closed /\ fbValid /\ busyReads = MaxPolls /\ idleReads = 1

(* C6: endWrite is reached only after a poll read the busy pin as idle,    *)
(* and a call in the busy-wait loop leaves it only by such a read: while   *)
(* every poll reads 0 the call stays in the loop, however many polls were  *)
(* made.                                                                   *)
C6_WaitsForIdle ==
    /\ []((fbValid /\ pc \in {"EndWrite", "Returned"}) \/ Count(bus, "end") > 0
             => lastRead = 1 /\ idleReads = 1)
    /\ [][(InPollLoop /\ lastRead' # 1) => InPollLoop']_vars

C6_Witness ==
    /\ pc = "LoopDelay" /\ lastRead = 0
    /\ busyReads = MaxPolls /\ delays = MaxPolls + 1
    /\ TxOpen

(* C7: each configuration command is followed by exactly its parameter     *)
(* bytes: 0x00 by 0x1F; 0x50 by 0x10, 0x07; 0xE0 by 0x02; 0xE5 by 0x5A;    *)
(* and 0x12 by no data byte.                                               *)
C7_Parameters ==
    /\ IsPrefix(ParamsOf(bus, 0), << 31 >>)
    /\ IsPrefix(ParamsOf(bus, 80), << 16, 7 >>)
    /\ IsPrefix(ParamsOf(bus, 224), << 2 >>)
    /\ IsPrefix(ParamsOf(bus, 229), << 90 >>)
    /\ ParamsOf(bus, 18) = << >>
    /\ (fbValid /\ pc \notin {"Idle", "StartWrite", "Config"}) =>
         /\ ParamsOf(bus, 0) = << 31 >>
         /\ ParamsOf(bus, 80) = << 16, 7 >>
         /\ ParamsOf(bus, 224) = << 2 >>
         /\ ParamsOf(bus, 229) = << 90 >>
    /\ \A p \in CmdPos(bus, 18) : p < Len(bus) => bus[p + 1] = EndEv

C7_Witness ==
    /\ pc = "Returned" /\ fbValid
    /\ ParamsOf(bus, 80) = << 16, 7 >>
    /\ ParamsOf(bus, 19) = << 18, 19 >>

(* C8: for the supported geometries (pixel count a multiple of 8, 800x480  *)
(* among them) bufSize * 8 = width * height, and exactly bufSize data      *)
(* bytes lie between command 0x13 and command 0x12.                        *)
C8_TransferSize ==
    /\ \A g \in SupportedPanels : BufSize(g[1], g[2]) * 8 = g[1] * g[2]
    /\ (fbValid /\ pc # "Idle") =>
         /\ width = dispWidth /\ height = dispHeight
         /\ (width * height) % 8 = 0 => bufSize * 8 = width * height
    /\ RefreshSent =>
         /\ Len(ParamsOf(bus, 19)) = bufSize
         /\ \A p \in CmdPos(bus, 19) : bus[p + bufSize + 1] = RefreshCmd

C8_Witness ==
    /\ pc = "Returned" /\ fbValid
    /\ width * height = 24 /\ bufSize = 3
    /\ Len(ParamsOf(bus, 19)) = 3

(* C9: the framebuffer is never written: at every state of the call its    *)
(* content is what it was when the call was made.                          *)
C9_FrameBufferUnchanged == frameBuffer = fbAtCall

C9_Witness ==
    /\ pc = "Returned" /\ fbValid /\ bufSize = 2
    /\ frameBuffer = << 237, 0 >>
    /\ ParamsOf(bus, 19) = << 18, 255 >>

(* C10: on a non-null framebuffer, once a poll has read the busy pin as    *)
(* idle the call ends the transaction and returns; endWrite is called      *)
(* once, and not before that idle reading.                                 *)
C10_TerminatesOnIdle ==
    /\ (fbValid /\ idleReads >= 1) ~> (pc = "Returned" /\ Count(bus, "end") = 1)
    /\ [](Count(bus, "end") <= 1)
    /\ [](Count(bus, "end") = 1 => idleReads >= 1 /\ pc = "Returned")

C10_Witness ==
    /\ pc = "Returned" /\ Count(bus, "end") = 1
    /\ busyReads >= 1 /\ idleReads = 1 /\ lastRead = 1

(* The state of the routine's implicit state machine: 0 Idle,             *)
(* 1 TransactionOpen, 2 ConfigSent, 3 ImageStreaming, 4 RefreshTriggered,  *)
(* 5 WaitingBusy, 6 TransactionClosed.  The null abort stays in Idle.      *)
Phase ==
    CASE pc \in {"Idle", "StartWrite"} -> 0
      [] pc = "Config" -> 1
      [] pc = "ImageCmd" -> 2
      [] pc = "Stream" -> 3
      [] pc = "Poll" /\ lastRead = -1 -> 4
      [] pc \in {"Poll", "LoopDelay", "EndWrite"} -> 5
      [] pc = "Returned" -> IF fbValid THEN 6 ELSE 0

(* A step that reads the busy pin. *)
PollStep == pc = "Poll" /\ pc' # "Poll"

(* A step that calls writecommand or writedata. *)
WriteStep ==
    /\ Len(bus') > Len(bus)
    /\ \E p \in Len(bus) + 1 .. Len(bus') : bus'[p].op \in {"cmd", "data"}

(* C11: the states are visited in the order Idle, TransactionOpen,         *)
(* ConfigSent, ImageStreaming, RefreshTriggered, WaitingBusy,              *)
(* TransactionClosed, none skipped; startWrite and endWrite are each       *)
(* called at most once, startWrite first and endWrite last; and every      *)
(* writecommand, writedata and poll of the busy pin happens while the      *)
(* transaction is open.                                                    *)
C11_HeldThroughout ==
    /\ [][Phase' \in {Phase, Phase + 1}]_vars
    /\ [](/\ Count(bus, "start") <= 1
          /\ Count(bus, "end") <= 1
          /\ \A p \in 1 .. Len(bus) :
               /\ bus[p] = StartEv <=> p = 1
               /\ bus[p] = EndEv => p = Len(bus) /\ pc = "Returned"
          /\ Phase \in 1 .. 5 <=> TxOpen)
    /\ [][(PollStep \/ WriteStep) => (TxOpen /\ TxOpen')]_vars

C11_Witness ==
    /\ pc = "Returned" /\ Phase = 6
    /\ Count(bus, "start") = 1 /\ Count(bus, "end") = 1
    /\ busyReads >= 1 /\ bufSize >= 1

(* C17: every framebuffer read is at an index in 0 .. (width*height)/8 - 1, *)
(* also when width*height is not a multiple of 8 or is below 8; after the  *)
(* loop exactly the indices below bufSize have been read; and with         *)
(* bufSize = 0 command 0x13 is immediately followed by command 0x12.       *)
C17_ReadsInBounds ==
    /\ \A k \in fbReads : 0 <= k /\ k < (dispWidth * dispHeight) \div 8
    /\ \A k \in fbReads : k < bufSize /\ k < Len(frameBuffer)
    /\ pc = "Stream" => fbReads = 0 .. i - 1
    /\ RefreshSent => fbReads = 0 .. bufSize - 1
    /\ (RefreshSent /\ bufSize = 0) =>
         \A p \in CmdPos(bus, 19) : bus[p + 1] = RefreshCmd

C17_Witness ==
    /\ pc = "Returned" /\ fbValid
    /\ width * height = 20 /\ bufSize = 2
    /\ fbReads = {0, 1}

(* The calls recorded between startWrite and command 0x13. *)
Header ==
    IF CmdPos(bus, 19) = {} THEN << >>
    ELSE SubSeq(bus, 2, (CHOOSE p \in CmdPos(bus, 19) : TRUE) - 1)

(* C13 as stated: the header that precedes command 0x13 is 5                *)
(* command/data pairs.                                                     *)
C13_FiveHeaderPairs ==
    RefreshSent =>
        /\ Len(Header) = 10
        /\ \A j \in 1 .. 5 :
             Header[2 * j - 1].op = "cmd" /\ Header[2 * j].op = "data"

(* C13, amended: for the 800x480 panel bufSize is 48000, and the stream of *)
(* a call is 4 header commands carrying 5 parameter bytes (9 writes), then *)
(* command 0x13, then bufSize inverted data bytes, then command 0x12.      *)
C13_PanelStream ==
    /\ \A g \in SupportedPanels : g = << 800, 480 >> /\ BufSize(g[1], g[2]) = 48000
    /\ RefreshSent =>
         /\ Len(Header) = 9
         /\ Count(Header, "cmd") = 4 /\ Count(Header, "data") = 5
         /\ bus[1] = StartEv /\ bus[11] = ImageCmd
         /\ \A k \in 1 .. bufSize : bus[11 + k] = Data(255 - fbAtCall[k])
         /\ bus[12 + bufSize] = RefreshCmd
         /\ Len(bus) = 12 + bufSize + Count(bus, "end")
         /\ Count(bus, "cmd") = 6 /\ Count(bus, "data") = 5 + bufSize

C13_Witness ==
    /\ pc = "Returned" /\ fbValid /\ bufSize = 3
    /\ Len(Header) = 9 /\ Len(bus) = 16
    /\ BufSize(800, 480) = 48000

(* C15 as stated: endWrite is reached only after a poll read busy and a    *)
(* later poll read idle.                                                   *)
C15_BusyThenIdle ==
    (fbValid /\ pc \in {"EndWrite", "Returned"}) =>
        busyReads >= 1 /\ idleReads >= 1

(* C15, amended: the wait is on the level of the busy pin: endWrite is     *)
(* reached at the first poll that reads idle, every earlier poll (there    *)
(* may be none) having read busy.                                          *)
C15_FirstIdleEnds ==
    /\ (fbValid /\ pc \in {"EndWrite", "Returned"}) =>
         /\ lastRead = 1 /\ idleReads = 1
         /\ busyReads \in 0 .. MaxPolls
    /\ pc = "LoopDelay" => lastRead = 0 /\ idleReads = 0 /\ busyReads >= 1
    /\ pc = "Poll" => lastRead \in {-1, 0} /\ idleReads = 0

C15_Witness ==
    /\ pc = "Returned" /\ fbValid
    /\ busyReads = 0 /\ idleReads = 1 /\ delays = 1

(* C16: the busy pin is read only after command 0x12 was written and one   *)
(* delay has elapsed; one delay separates consecutive polls; and nothing   *)
(* is written with writecommand or writedata once the pin has been read.   *)
C16_PollAfterTrigger ==
    /\ [][PollStep =>
            /\ CmdPos(bus, 18) # {}
            /\ delays >= 1
            /\ delays = busyReads + 1]_vars
    /\ [][lastRead # -1 => ~WriteStep]_vars
    /\ [](lastRead = -1 <=> busyReads + idleReads = 0)
    /\ [](lastRead # -1 => bus[Len(bus) - Count(bus, "end")] = RefreshCmd)

C16_Witness ==
    /\ pc = "Poll" /\ lastRead = 0
    /\ busyReads = 1 /\ delays = 2
    /\ bus[Len(bus)] = RefreshCmd

(* C14: board selection is closed and decided by the build: target        *)
(* ESP32C3 gets BOARD_SCREEN_COMBO 502, target ESP32S3 gets 520, any other *)
(* target stops at the #error with BOARD_SCREEN_COMBO undefined; no        *)
(* firmware runs with an unsupported or undefined combination.             *)
C14_BoardSelection ==
    /\ pc = "Build" <=> build.status = "pending"
    /\ build.status = "ok" =>
         \/ build.target = "ESP32C3" /\ build.combo = 502
         \/ build.target = "ESP32S3" /\ build.combo = 520
    /\ build.status = "error" =>
         /\ build.target \notin {"ESP32C3", "ESP32S3"}
         /\ build.combo = 0
         /\ pc = "BuildFailed"
    /\ pc = "BuildFailed" => build.status = "error" /\ bus = << >>
    /\ pc \notin {"Build", "BuildFailed"} =>
         build.status = "ok" /\ build.combo \in {502, 520}

C14_Witness ==
    /\ pc = "BuildFailed"
    /\ build = [target |-> "ESP32S2", status |-> "error", combo |-> 0]

(* The returned call was given what the remembered earlier call was given. *)
SameInput(r) ==
    /\ r.valid = fbValid
    /\ r.w = dispWidth /\ r.h = dispHeight
    /\ r.fb = fbAtCall

(* C12: the routine keeps no state between calls: a call that was given    *)
(* the same width, height and framebuffer content as any earlier call of   *)
(* the run, whatever calls lie between them, has written the same sequence *)
(* of startWrite/writecommand/writedata/endWrite operations.               *)
C12_NoCrossCallState ==
    (pc = "Returned" /\ earlier # << >> /\ SameInput(earlier[1])) =>
        bus = earlier[1].stream

C12_Witness ==
    /\ pc = "Returned" /\ fbValid /\ bufSize = 3
    /\ earlier # << >> /\ SameInput(earlier[1])
    /\ i = 3 /\ Len(bus) = 16

(* What one undisturbed call writes for the framebuffer of the call. *)
SerialStream ==
    << StartEv >> \o ConfigSequence \o << ImageCmd >>
      \o [k \in 1 .. Len(fbAtCall) |-> Data(255 - fbAtCall[k])]
      \o << RefreshCmd, EndEv >>

(* C18: the routine has no mutual exclusion of its own: whatever the other *)
(* caller is doing, transaction open or not, the next statement of the     *)
(* running caller can execute, and the scheduler can resume the other      *)
(* caller at any statement.  (The witness is an interleaving the claim     *)
(* speaks of.)                                                             *)
C18_NoMutualExclusion ==
    /\ pc # "Returned" => ENABLED Step
    /\ (other # << >> /\ other[1].switches < MaxSwitches) => ENABLED Switch

(* Both callers have returned; the controller received neither one call's  *)
(* stream after the other's, and a write followed an endWrite that closed  *)
(* the transaction under the caller that was still writing.                *)
C18_Witness ==
    /\ other # << >>
    /\ pc = "Returned" /\ other[1].ctx.pc = "Returned"
    /\ bus # SerialStream \o SerialStream
    /\ CmdVals(bus) # ExpectedCmds \o ExpectedCmds
    /\ \E p \in 1 .. Len(bus) - 1 :
         /\ bus[p] = EndEv
         /\ bus[p + 1].op \in {"cmd", "data"}
         /\ Count(SubSeq(bus, 1, p), "start") = 2

====
